---------------------------- MODULE Spec2Model ----------------------------
(***************************************************************************)
(* Model of the flat-file prompt pipeline of prompt-2-pdf                  *)
(* (src/src/async_prompts_to_pdf.py; async_prompts_to_pdf_v2.py has the    *)
(* same controller and orchestrator without the system-prompt override).   *)
(*                                                                         *)
(* A Python string is a sequence of one-character strings; the fixed       *)
(* pieces of the f-string templates are kept as single elements.           *)
(***************************************************************************)
EXTENDS Integers, Sequences, FiniteSets, TLC

(***************************************************************************)
(* Bounds of the model.                                                    *)
(***************************************************************************)
\* longest prompt-file body that is enumerated, in characters
MaxTextLen == 4
\* largest value of max_concurrent_requests that is enumerated
MaxConcurrency == 2
\* length of prompts_filenames
NumFiles == 2

\* longest text given to extract_system_prompt_and_body on its own
MaxExtractLen == 7

\* most entries of a mapping or of a sequence in a prompt tree
MaxChildren == 2

\* levels of mappings and sequences below a top-level key of a prompt tree
TreeDepth == 2

(***************************************************************************)
(* Characters and strings.                                                 *)
(***************************************************************************)
\* The characters a prompt file is built from.  There is no backtick, so
\* fenced_pattern never matches and extract_system_prompt_and_body leaves
\* the text unchanged.
Char == {"\n", " ", "#", "a"}

Texts == UNION {[1..n -> Char] : n \in 0..MaxTextLen}

\* the three backticks that open and close a fenced block, one element
Fence == "<fence>"

\* what stands between the fences of the override block of a file: nothing
\* but a newline, or one instruction
OverrideBodies == { <<"\n">>, <<"\n", "a", "\n">> }

\* prompt files that open with a fenced override block
FencedTexts ==
    { <<Fence, "system">> \o o \o <<Fence>> \o b :
        o \in OverrideBodies, b \in {t \in Texts : Len(t) <= MaxTextLen - 2} }

\* the contents a prompt file is read with
FileTexts == Texts \cup FencedTexts

IsSpace(c) == c \in {" ", "\n"}

RECURSIVE LStrip(_)
\* str.lstrip(): drop leading whitespace
LStrip(s) ==
    IF s = <<>> THEN <<>>
    ELSE IF IsSpace(Head(s)) THEN LStrip(Tail(s)) ELSE s

RECURSIVE RStrip(_)
\* trailing whitespace dropped (the right half of str.strip())
RStrip(s) ==
    IF s = <<>> THEN <<>>
    ELSE IF IsSpace(s[Len(s)]) THEN RStrip(SubSeq(s, 1, Len(s) - 1)) ELSE s

\* str.strip()
Strip(s) == RStrip(LStrip(s))

RECURSIVE SplitFrom(_, _)
\* str.splitlines() on the rest t of the text, cur being the line read so far
SplitFrom(t, cur) ==
    IF t = <<>> THEN (IF cur = <<>> THEN <<>> ELSE <<cur>>)
    ELSE IF Head(t) = "\n" THEN <<cur>> \o SplitFrom(Tail(t), <<>>)
    ELSE SplitFrom(Tail(t), Append(cur, Head(t)))

\* str.splitlines(): no line for the empty rest after a final newline
SplitLines(text) == SplitFrom(text, <<>>)

\* str.startswith("#")
StartsWithHash(s) == s # <<>> /\ Head(s) = "#"

RECURSIVE DropUntilHeader(_)
DropUntilHeader(ls) ==
    IF ls = <<>> THEN <<>>
    ELSE IF StartsWithHash(LStrip(Head(ls))) THEN ls
    ELSE DropUntilHeader(Tail(ls))

\* an orchestrator that starts collecting at the first header
NonBlankLines_dropLeading(text) ==
    DropUntilHeader(SelectSeq(SplitLines(text), LAMBDA ln : Strip(ln) # <<>>))

\* lines = [ln for ln in prompts_text.splitlines() if ln.strip()]
NonBlankLines(text) == SelectSeq(SplitLines(text), LAMBDA ln : Strip(ln) # <<>>)

\* None
NoneVal == <<"<None>">>

\* The opening of a fenced block: three backticks are one element, the
\* word "system" (in either case, re.IGNORECASE) the next.
FenceOpenAt(text, i) ==
    /\ i + 1 <= Len(text)
    /\ text[i] = Fence
    /\ text[i + 1] \in {"system", "SYSTEM"}

\* positions of a closing fence for a block opened at i
ClosingAfter(text, i) == {j \in (i + 2)..Len(text) : text[j] = Fence}

\* positions at which fenced_pattern matches
MatchStarts(text) ==
    {i \in 1..Len(text) : FenceOpenAt(text, i) /\ ClosingAfter(text, i) # {}}

Min(S) == CHOOSE x \in S : \A y \in S : x <= y
Max(S) == CHOOSE x \in S : \A y \in S : x >= y

\* a greedy pattern, (.*) for (.*?): the block runs to the last fence
extract_system_prompt_and_body_greedy(text) ==
    IF MatchStarts(text) = {} THEN <<NoneVal, text>>
    ELSE LET i == Min(MatchStarts(text))
             j == Max(ClosingAfter(text, i))
         IN  <<Strip(SubSeq(text, i + 2, j - 1)),
               SubSeq(text, 1, i - 1) \o SubSeq(text, j + 1, Len(text))>>

\* an extraction that honors the last block instead of the first
extract_system_prompt_and_body_last(text) ==
    IF MatchStarts(text) = {} THEN <<NoneVal, text>>
    ELSE LET i == Max(MatchStarts(text))
             j == Min(ClosingAfter(text, i))
         IN  <<Strip(SubSeq(text, i + 2, j - 1)),
               SubSeq(text, 1, i - 1) \o SubSeq(text, j + 1, Len(text))>>

\* extract_system_prompt_and_body(text): fenced_pattern.search finds the
\* leftmost opening that has a closing fence, (.*?) ends at the nearest one;
\* the result is (m.group(1).strip(), text[:m.start()] + text[m.end():]),
\* or (None, text) without a match
extract_system_prompt_and_body(text) ==
    IF MatchStarts(text) = {} THEN <<NoneVal, text>>
    ELSE LET i == Min(MatchStarts(text))
             j == Min(ClosingAfter(text, i))
         IN  <<Strip(SubSeq(text, i + 2, j - 1)),
               SubSeq(text, 1, i - 1) \o SubSeq(text, j + 1, Len(text))>>

RECURSIVE Join(_)
\* "\n\n".join(pieces)
Join(ps) ==
    IF ps = <<>> THEN <<>>
    ELSE IF Len(ps) = 1 THEN ps[1]
    ELSE ps[1] \o <<"\n", "\n">> \o Join(Tail(ps))


(***************************************************************************)
(* Configuration values of the module (lines 23-39).                       *)
(***************************************************************************)
\* the selectors the Save step knows (lines 197, 207)
SupportedFormats == {"pdf", "docx", "epub"}

\* values output_format is set to, one for each branch of the Save step:
\* "docx" stands for both selectors of the pandoc branch, "txt" for any
\* selector the step does not know
Formats == {"pdf", "docx", "txt"}

(***************************************************************************)
(* The generator.                                                          *)
(***************************************************************************)
\* outcome of client.responses.create when it raises
Raises == <<"<raises>">>

\* response.output_text for a request whose user message is user_prompt:
\* the answer names its prompt, with or without surrounding whitespace
ApiReplies(user_prompt) ==
    { <<"R">> \o user_prompt, <<" ", "R">> \o user_prompt \o <<"\n">> }

\* `if extra_system_prompt:` is false for None and for the empty string
Truthy(x) == x # NoneVal /\ x # <<>>

\* a generator that appends the override whenever it is not None
RequestMessages_notNone(user_prompt, extra) ==
    <<[role |-> "system", content |-> <<"base_system">>]>>
    \o (IF extra # NoneVal THEN <<[role |-> "system", content |-> extra]>> ELSE <<>>)
    \o <<[role |-> "user", content |-> user_prompt \o <<"\n", "\n">>]>>

\* the message list `prompt` of generate_markdown_from_prompt (lines 76-91)
RequestMessages(user_prompt, extra) ==
    <<[role |-> "system", content |-> <<"base_system">>]>>
    \o (IF Truthy(extra) THEN <<[role |-> "system", content |-> extra]>> ELSE <<>>)
    \o <<[role |-> "user", content |-> user_prompt \o <<"\n", "\n">>]>>

\* separator = "\n\n===========================\n\n"
Separator == "\n\n===========================\n\n"

\* the except branch: the fallback text, without the separator
FallbackText(user_prompt) ==
    <<"**Prompt:** ">> \o user_prompt \o <<"\n", "\n", "*Error generating content.*">>

\* the try branch for the reply the API gave
MarkdownText(user_prompt, reply) ==
    <<Separator, "**Prompt:** ">> \o user_prompt \o <<"\n", "\n">> \o Strip(reply)

\* a generator without the try/except: the failure is not turned into text
generate_markdown_from_prompt_uncaught(user_prompt, reply) ==
    IF reply = Raises THEN Raises ELSE MarkdownText(user_prompt, reply)

\* generate_markdown_from_prompt(user_prompt, client, extra_system_prompt),
\* reply being what client.responses.create does
generate_markdown_from_prompt(user_prompt, reply) ==
    IF reply = Raises THEN FallbackText(user_prompt)
    ELSE MarkdownText(user_prompt, reply)

\* the dry-run text of fetch_markdown
PlaceholderText(stripped) ==
    <<"**Prompt:** ">> \o stripped \o <<"\n", "\n", "_test placeholder_", "\n">>

(***************************************************************************)
(* State.                                                                  *)
(***************************************************************************)
VARIABLES
    output_format,    \* module variable output_format
    concurrency,      \* module variable max_concurrent_requests
    api_key,          \* os.getenv("OPENAI_API_KEY"): None, "" or a key
    output_dir,       \* the directory results/ has been made by main
    full_text,        \* content read from the current prompt file
    extra_system_prompt, \* override extracted from the current prompt file
    requests,         \* message lists sent to the API by each task of the run
    sections,         \* the document handed to the serializer, as its sections
    missing,          \* files of prompts_filenames that were not found
    data,             \* main.py: the prompt tree loaded from the YAML file
    agenda,           \* main.py: calls of generate_markdown_from_node still to
                      \* be made for the current top-level section, next first
    section_md,       \* main.py: the pieces of the current section, in order
    all_sections_md,  \* main.py: the finished sections
    fileIdx,          \* position of the for loop in prompts_filenames
    pc,               \* position of main inside the loop body
    exit,             \* "running", "ok" (main returned), "exit1" (sys.exit(1)),
                      \* "exception" (an exception left main)
    chatgpt_prompts,  \* body of the current prompt file
    lines,            \* process_prompts_to_markdown: lines
    tasks,            \* state of each task: created, waiting, inflight, done
    result,           \* return value of each finished task
    semaphore,        \* value of the asyncio.Semaphore
    waiters,          \* tasks blocked in semaphore.acquire(), oldest first
    pieces,           \* what asyncio.gather returned
    dry_pieces,       \* what asyncio.gather returned in the dry run of the file
    markdown,         \* markdown_dry, then full_markdown
    dry_sample,       \* results/<stem>_dry.md on disk: "absent" or "present"
    saved,            \* files whose final document has been written
    \* history of the run, read by the properties only
    sent,             \* user prompts handed to generate_markdown_from_prompt
                      \* for the current file
    raised,           \* tasks of the current run whose API call raised
    apiSpent,         \* some generation call has been issued by this process
    dryFailure,       \* step of the dry-run sample that failed: none, open, write, unlink
    saveFailed,       \* serializing a final document has failed
    outOfOrder,       \* a call of the current run returned before an earlier one
    dry_log           \* dry-run sample of the current file: none, written, deleted

config == <<output_format, concurrency>>
env == <<api_key, output_dir>>
more == <<sections, missing>>
tree == <<data, agenda, section_md, all_sections_md>>
ctl == <<fileIdx, pc, exit, chatgpt_prompts, full_text, extra_system_prompt>>
run == <<lines, tasks, result, semaphore, waiters, raised, outOfOrder, requests>>
docs == <<pieces, dry_pieces, markdown>>
disk == <<dry_sample, saved, dry_log>>
hist == <<sent, apiSpent, dryFailure, saveFailed>>
vars == <<config, tree, env, more, ctl, run, docs, disk, hist>>

NoText == <<>>

\* no YAML file is loaded
NoTree == [kind |-> "none", text |-> "", items |-> <<>>]

Init ==
    /\ output_format \in Formats
    /\ concurrency \in 1..MaxConcurrency
    /\ api_key \in {NoneVal, <<>>, <<"key">>}
    /\ output_dir = FALSE
    /\ full_text = NoText
    /\ extra_system_prompt = NoneVal
    /\ requests = <<>>
    /\ sections = <<>>
    /\ missing = {}
    /\ data = NoTree
    /\ agenda = <<>>
    /\ section_md = <<>>
    /\ all_sections_md = <<>>
    /\ fileIdx = 1
    /\ pc = "start"
    /\ exit = "running"
    /\ chatgpt_prompts = NoText
    /\ lines = <<>>
    /\ tasks = <<>>
    /\ result = <<>>
    /\ semaphore = 0
    /\ waiters = <<>>
    /\ pieces = <<>>
    /\ dry_pieces = <<>>
    /\ markdown = NoText
    /\ dry_sample = "absent"
    /\ saved = {}
    /\ sent = {}
    /\ raised = {}
    /\ apiSpent = FALSE
    /\ dryFailure = "none"
    /\ saveFailed = FALSE
    /\ outOfOrder = FALSE
    /\ dry_log = "none"

(***************************************************************************)
(* process_prompts_to_markdown: the orchestrator.                          *)
(***************************************************************************)
\* an orchestrator that drops the dry_run flag
dry_run_ignored == FALSE

\* the dry_run argument: main passes True in the first call only
dry_run == pc = "dry_gather"

InGather == pc \in {"dry_gather", "real_gather"}

\* the argument stripped on both sides: line.strip()
TaskArg_strip(idx) == Strip(lines[idx])

\* an orchestrator that strips the line on both sides in the dry run only
TaskArg_dryStrip(idx) == IF dry_run THEN Strip(lines[idx]) ELSE LStrip(lines[idx])

\* the argument of fetch_markdown for task idx: line.lstrip()
TaskArg(idx) == LStrip(lines[idx])

\* a semaphore that never blocks
CanAcquire_unguarded == TRUE

\* asyncio.Semaphore: acquire() returns at once unless locked()
CanAcquire == semaphore > 0 /\ waiters = <<>>

\* results handed back last task first
GatherReversed(res) == [i \in 1..Len(res) |-> res[Len(res) + 1 - i]]

\* results of asyncio.gather(*tasks): one per task, in the order of the tasks
Gather(res) == [i \in 1..Len(res) |-> res[i]]

\* The call of process_prompts_to_markdown up to `await asyncio.gather`:
\* the lines, a fresh semaphore and one task per line.
StartRun(text, nextpc) ==
    LET ls == NonBlankLines(text) IN
    /\ lines' = ls
    /\ tasks' = [i \in 1..Len(ls) |-> "created"]
    /\ result' = [i \in 1..Len(ls) |-> NoText]
    /\ semaphore' = concurrency
    /\ waiters' = <<>>
    /\ raised' = {}
    /\ outOfOrder' = FALSE
    /\ requests' = [i \in 1..Len(ls) |-> <<>>]
    /\ pc' = nextpc

\* The body of `async with semaphore` for task i, sem being the value of
\* the semaphore when the task takes its permit.
InsideSemaphore(i, sem) ==
    IF dry_run
    THEN \* the placeholder is returned and the permit released at once
         /\ result' = [result EXCEPT ![i] = PlaceholderText(TaskArg(i))]
         /\ tasks' = [tasks EXCEPT ![i] = "done"]
         /\ semaphore' = sem
         /\ UNCHANGED <<sent, apiSpent, requests>>
    ELSE \* run_in_executor(None, generate_markdown_from_prompt, stripped, ...)
         /\ tasks' = [tasks EXCEPT ![i] = "inflight"]
         /\ semaphore' = sem - 1
         /\ sent' = sent \cup {TaskArg(i)}
         /\ apiSpent' = TRUE
         /\ requests' = [requests EXCEPT ![i] =
                            Append(@, RequestMessages(TaskArg(i), extra_system_prompt))]
         /\ UNCHANGED result

\* First step of task i (the event loop starts the tasks in creation order).
TaskStart(i) ==
    /\ exit = "running" /\ InGather
    /\ i \in DOMAIN tasks /\ tasks[i] = "created"
    /\ \A j \in 1..(i - 1) : tasks[j] # "created"
    /\ IF StartsWithHash(TaskArg(i))
       THEN /\ result' = [result EXCEPT ![i] = TaskArg(i)]
            /\ tasks' = [tasks EXCEPT ![i] = "done"]
            /\ UNCHANGED <<semaphore, waiters, sent, apiSpent, requests>>
       ELSE IF CanAcquire
       THEN /\ InsideSemaphore(i, semaphore)
            /\ UNCHANGED waiters
       ELSE /\ waiters' = Append(waiters, i)
            /\ tasks' = [tasks EXCEPT ![i] = "waiting"]
            /\ UNCHANGED <<result, semaphore, sent, apiSpent, requests>>
    /\ UNCHANGED <<config, tree, env, more, ctl, lines, raised, outOfOrder, docs, disk, dryFailure, saveFailed>>

\* a semaphore whose release wakes no waiter
TaskAcquire_never(i) ==
    /\ FALSE
    /\ UNCHANGED vars

\* The oldest waiter is woken by a release and takes the permit.
TaskAcquire(i) ==
    /\ exit = "running" /\ InGather
    /\ i \in DOMAIN tasks /\ tasks[i] = "waiting"
    /\ waiters # <<>> /\ Head(waiters) = i
    /\ semaphore > 0
    /\ waiters' = Tail(waiters)
    /\ InsideSemaphore(i, semaphore)
    /\ UNCHANGED <<config, tree, env, more, ctl, lines, raised, outOfOrder, docs, disk, dryFailure, saveFailed>>

\* a task that keeps its permit when its call has failed
GenReturn_leakOnFailure(i) ==
    /\ exit = "running" /\ InGather
    /\ i \in DOMAIN tasks /\ tasks[i] = "inflight"
    /\ \E reply \in ApiReplies(TaskArg(i)) \cup {Raises} :
         /\ result' = [result EXCEPT ![i] = generate_markdown_from_prompt(TaskArg(i), reply)]
         /\ raised' = IF reply = Raises THEN raised \cup {i} ELSE raised
         /\ semaphore' = IF reply = Raises THEN semaphore ELSE semaphore + 1
    /\ tasks' = [tasks EXCEPT ![i] = "done"]
    /\ outOfOrder' = (outOfOrder \/ \E j \in 1..(i - 1) : tasks[j] \in {"inflight", "waiting"})
    /\ UNCHANGED <<config, tree, env, more, ctl, lines, waiters, requests, docs, disk, hist>>

\* a generator that sends the request again when the call has failed once
GenReturn_retry(i) ==
    /\ exit = "running" /\ InGather
    /\ i \in DOMAIN tasks /\ tasks[i] = "inflight"
    /\ \E reply \in ApiReplies(TaskArg(i)) \cup {Raises} :
         IF reply = Raises /\ Len(requests[i]) < 2
         THEN /\ requests' = [requests EXCEPT ![i] =
                                Append(@, RequestMessages(TaskArg(i), extra_system_prompt))]
              /\ UNCHANGED <<result, raised, tasks, semaphore, outOfOrder>>
         ELSE /\ result' = [result EXCEPT ![i] = generate_markdown_from_prompt(TaskArg(i), reply)]
              /\ raised' = IF reply = Raises THEN raised \cup {i} ELSE raised
              /\ tasks' = [tasks EXCEPT ![i] = "done"]
              /\ semaphore' = semaphore + 1
              /\ outOfOrder' = (outOfOrder \/ \E j \in 1..(i - 1) : tasks[j] \in {"inflight", "waiting"})
              /\ UNCHANGED requests
    /\ UNCHANGED <<config, tree, env, more, ctl, lines, waiters, docs, disk, hist>>

\* The generation call of task i returns in its worker thread (with the
\* reply, or through its except branch), the task leaves `async with` and
\* the permit is released.
GenReturn(i) ==
    /\ exit = "running" /\ InGather
    /\ i \in DOMAIN tasks /\ tasks[i] = "inflight"
    /\ \E reply \in ApiReplies(TaskArg(i)) \cup {Raises} :
         /\ result' = [result EXCEPT ![i] = generate_markdown_from_prompt(TaskArg(i), reply)]
         /\ raised' = IF reply = Raises THEN raised \cup {i} ELSE raised
    /\ tasks' = [tasks EXCEPT ![i] = "done"]
    /\ semaphore' = semaphore + 1
    /\ outOfOrder' = (outOfOrder \/ \E j \in 1..(i - 1) : tasks[j] \in {"inflight", "waiting"})
    /\ UNCHANGED <<config, tree, env, more, ctl, lines, waiters, requests, docs, disk, hist>>

AllDone == \A i \in DOMAIN tasks : tasks[i] = "done"

(***************************************************************************)
(* main: the two-phase controller, one loop iteration per prompt file.     *)
(***************************************************************************)
\* a start that does not look at the credential
CredentialMissing_unchecked == FALSE

\* `if not api_key`
CredentialMissing == ~Truthy(api_key)

\* Path("src/custom.css").read_text raises: nothing catches it
StartupCssMissing ==
    /\ exit = "running" /\ pc = "start"
    /\ exit' = "exception"
    /\ UNCHANGED <<config, tree, env, more, fileIdx, pc, chatgpt_prompts, full_text, extra_system_prompt, run, docs, disk, hist>>

\* OPENAI_API_KEY is not set: reported, sys.exit(1)
StartupNoKey ==
    /\ exit = "running" /\ pc = "start"
    /\ CredentialMissing
    /\ exit' = "exit1"
    /\ UNCHANGED <<config, tree, env, more, fileIdx, pc, chatgpt_prompts, full_text, extra_system_prompt, run, docs, disk, hist>>

\* the client is made, results/ is made, the loop is entered
Startup ==
    /\ exit = "running" /\ pc = "start"
    /\ ~CredentialMissing
    /\ output_dir' = TRUE
    /\ pc' = "read"
    /\ UNCHANGED <<config, tree, api_key, more, fileIdx, exit, chatgpt_prompts, full_text, extra_system_prompt, run, docs, disk, hist>>

\* what the loop leaves behind when it moves to the next file: the locals of
\* the iteration are dead and are cleared
NextFile ==
    /\ fileIdx' = fileIdx + 1
    /\ pc' = "read"
    /\ chatgpt_prompts' = NoText
    /\ full_text' = NoText
    /\ extra_system_prompt' = NoneVal
    /\ requests' = <<>>
    /\ sections' = <<>>
    /\ lines' = <<>>
    /\ tasks' = <<>>
    /\ result' = <<>>
    /\ semaphore' = 0
    /\ waiters' = <<>>
    /\ raised' = {}
    /\ outOfOrder' = FALSE
    /\ pieces' = <<>>
    /\ dry_pieces' = <<>>
    /\ markdown' = NoText
    /\ sent' = {}
    /\ dry_log' = "none"

\* a controller that stops at the first file it does not find
ReadFileMissing_abort ==
    /\ exit = "running" /\ pc = "read"
    /\ fileIdx <= NumFiles
    /\ missing' = missing \cup {fileIdx}
    /\ exit' = "exit1"
    /\ UNCHANGED <<config, tree, env, sections, fileIdx, pc, chatgpt_prompts, full_text, extra_system_prompt, run, docs, disk, hist>>

\* open() raises FileNotFoundError: reported, continue
ReadFileMissing ==
    /\ exit = "running" /\ pc = "read" /\ fileIdx <= NumFiles
    /\ missing' = missing \cup {fileIdx}
    /\ NextFile
    /\ UNCHANGED <<config, tree, env, exit, dry_sample, saved, apiSpent, dryFailure, saveFailed>>

\* the file is read and the dry run is started
ReadFile ==
    /\ exit = "running" /\ pc = "read" /\ fileIdx <= NumFiles
    /\ \E text \in FileTexts :
         /\ full_text' = text
         /\ extra_system_prompt' = extract_system_prompt_and_body(text)[1]
         /\ chatgpt_prompts' = extract_system_prompt_and_body(text)[2]
         /\ StartRun(extract_system_prompt_and_body(text)[2], "dry_gather")
    /\ UNCHANGED <<config, tree, env, more, fileIdx, exit, docs, disk, hist>>

\* a controller that starts the real run as soon as the dry run has returned
DryRunReturns_skipsValidation ==
    /\ exit = "running" /\ pc = "dry_gather" /\ AllDone
    /\ pieces' = Gather(result)
    /\ dry_pieces' = Gather(result)
    /\ markdown' = Join(Gather(result))
    /\ StartRun(chatgpt_prompts, "real_gather")
    /\ UNCHANGED <<config, tree, env, more, fileIdx, exit, chatgpt_prompts, full_text, extra_system_prompt, disk, hist>>

\* markdown_dry = await process_prompts_to_markdown(..., dry_run=True)
DryRunReturns ==
    /\ exit = "running" /\ pc = "dry_gather" /\ AllDone
    /\ pieces' = Gather(result)
    /\ dry_pieces' = Gather(result)
    /\ markdown' = Join(Gather(result))
    /\ pc' = "dry_write"
    /\ UNCHANGED <<config, tree, env, more, fileIdx, exit, chatgpt_prompts, full_text, extra_system_prompt, run, disk, hist>>

\* a controller that reports the failed sample and goes on to the real run
DrySampleError_ignored ==
    /\ StartRun(chatgpt_prompts, "real_gather")
    /\ UNCHANGED <<fileIdx, exit, chatgpt_prompts, full_text, extra_system_prompt>>

\* An exception raised between lines 181 and 186 is caught nowhere: it
\* leaves main and asyncio.run, and the process ends with a traceback.
DrySampleError ==
    /\ exit' = "exception"
    /\ UNCHANGED <<fileIdx, pc, chatgpt_prompts, full_text, extra_system_prompt, run>>

\* open(dry_sample, "w") raises: no file is created
DryOpenFails ==
    /\ exit = "running" /\ pc = "dry_write"
    /\ dryFailure' = "open"
    /\ DrySampleError
    /\ UNCHANGED <<config, tree, env, more, docs, disk, sent, apiSpent, saveFailed>>

\* open() has created the file, f.write or the close of the with block raises
DryWriteFails ==
    /\ exit = "running" /\ pc = "dry_write"
    /\ dry_sample' = "present"
    /\ dryFailure' = "write"
    /\ DrySampleError
    /\ UNCHANGED <<config, tree, env, more, docs, saved, dry_log, sent, apiSpent, saveFailed>>

\* with open(dry_sample, "w") as f: f.write(markdown_dry[:2000])
DryWrite ==
    /\ exit = "running" /\ pc = "dry_write"
    /\ dry_sample' = "present"
    /\ dry_log' = "written"
    /\ pc' = "dry_unlink"
    /\ UNCHANGED <<config, tree, env, more, fileIdx, exit, chatgpt_prompts, full_text, extra_system_prompt, run, docs, saved, hist>>

\* dry_sample.unlink() raises: the file stays
DryUnlinkFails ==
    /\ exit = "running" /\ pc = "dry_unlink"
    /\ dryFailure' = "unlink"
    /\ DrySampleError
    /\ UNCHANGED <<config, tree, env, more, docs, disk, sent, apiSpent, saveFailed>>

\* dry_sample.unlink(), then the call of the real run up to its gather
DryUnlink ==
    /\ exit = "running" /\ pc = "dry_unlink"
    /\ dry_sample' = "absent"
    /\ dry_log' = "deleted"
    /\ StartRun(chatgpt_prompts, "real_gather")
    /\ UNCHANGED <<config, tree, env, more, fileIdx, exit, chatgpt_prompts, full_text, extra_system_prompt, docs, saved, hist>>

\* a controller that goes on without waiting for the tasks of the real run
RealRunReturns_noAwait ==
    /\ exit = "running" /\ pc = "real_gather"
    /\ pieces' = Gather(result)
    /\ UNCHANGED dry_pieces
    /\ markdown' = Join(Gather(result))
    /\ pc' = "save"
    /\ UNCHANGED <<config, tree, env, more, fileIdx, exit, chatgpt_prompts, full_text, extra_system_prompt, run, disk, hist>>

\* full_markdown = await process_prompts_to_markdown(..., dry_run=False)
RealRunReturns ==
    /\ exit = "running" /\ pc = "real_gather" /\ AllDone
    /\ pieces' = Gather(result)
    /\ UNCHANGED dry_pieces
    /\ markdown' = Join(Gather(result))
    /\ pc' = "save"
    /\ UNCHANGED <<config, tree, env, more, fileIdx, exit, chatgpt_prompts, full_text, extra_system_prompt, run, disk, hist>>

\* a controller that hands every block to the serializer as a section
DocumentSections_perLine(full_markdown) == pieces

\* The document the serializer is given: pdf.add_section(Section(
\* full_markdown)) is called once with the whole text, and
\* pypandoc.convert_text is given the whole text.
DocumentSections(full_markdown) == <<full_markdown>>

\* a supported format: the document is built from full_markdown
BuildDocument ==
    /\ exit = "running" /\ pc = "save"
    /\ output_format \in SupportedFormats
    /\ sections' = DocumentSections(markdown)
    /\ pc' = "serialize"
    /\ UNCHANGED <<config, tree, env, missing, fileIdx, exit, chatgpt_prompts, full_text, extra_system_prompt, run, docs, disk, hist>>

\* pdf.save / pypandoc.convert_text succeeds; the loop goes on
SaveOk ==
    /\ exit = "running" /\ pc = "serialize"
    /\ saved' = saved \cup {fileIdx}
    /\ NextFile
    /\ UNCHANGED <<config, tree, env, missing, exit, dry_sample, apiSpent, dryFailure, saveFailed>>

\* pdf.save / pypandoc.convert_text raises: except Exception, print, continue
SaveFails ==
    /\ exit = "running" /\ pc = "serialize"
    /\ saveFailed' = TRUE
    /\ NextFile
    /\ UNCHANGED <<config, tree, env, missing, exit, dry_sample, saved, apiSpent, dryFailure>>

\* the else branch: unknown output_format, sys.exit(1)
SaveUnknownFormat ==
    /\ exit = "running" /\ pc = "save"
    /\ output_format \notin SupportedFormats
    /\ exit' = "exit1"
    /\ UNCHANGED <<config, tree, env, more, fileIdx, pc, chatgpt_prompts, full_text, extra_system_prompt, run, docs, disk, hist>>

\* the for loop is exhausted: main returns and the process ends normally
MainReturns ==
    /\ exit = "running" /\ pc = "read" /\ fileIdx > NumFiles
    /\ exit' = "ok"
    /\ UNCHANGED <<config, tree, env, more, fileIdx, pc, chatgpt_prompts, full_text, extra_system_prompt, run, docs, disk, hist>>

MaxTasks == MaxTextLen

Next ==
    \/ StartupCssMissing
    \/ StartupNoKey
    \/ Startup
    \/ BuildDocument
    \/ ReadFileMissing
    \/ ReadFile
    \/ \E i \in 1..MaxTasks : TaskStart(i)
    \/ \E i \in 1..MaxTasks : TaskAcquire(i)
    \/ \E i \in 1..MaxTasks : GenReturn(i)
    \/ DryRunReturns
    \/ DryOpenFails
    \/ DryWriteFails
    \/ DryWrite
    \/ DryUnlinkFails
    \/ DryUnlink
    \/ RealRunReturns
    \/ SaveOk
    \/ SaveFails
    \/ SaveUnknownFormat
    \/ MainReturns

Spec == Init /\ [][Next]_vars

\* The event loop runs every task that is ready, a call that was dispatched
\* returns or fails, and gather returns once its tasks are done.
Fairness ==
    /\ \A i \in 1..MaxTasks :
          /\ WF_vars(TaskStart(i))
          /\ WF_vars(TaskAcquire(i))
          /\ WF_vars(GenReturn(i))
    /\ WF_vars(DryRunReturns)
    /\ WF_vars(RealRunReturns)

FairSpec == Spec /\ Fairness

(***************************************************************************)
(* extract_system_prompt_and_body on its own, applied to every text of     *)
(* fences, the word system, whitespace and other characters.               *)
(***************************************************************************)
ExtractChar == {Fence, "system", "SYSTEM", "\n", "a"}

ExtractTexts == UNION {[1..n -> ExtractChar] : n \in 0..MaxExtractLen}

InitExtract ==
    /\ output_format = "pdf"
    /\ concurrency = 1
    /\ api_key = <<"key">>
    /\ output_dir = FALSE
    /\ full_text \in ExtractTexts
    /\ extra_system_prompt = NoneVal
    /\ requests = <<>>
    /\ sections = <<>>
    /\ missing = {}
    /\ data = NoTree
    /\ agenda = <<>>
    /\ section_md = <<>>
    /\ all_sections_md = <<>>
    /\ fileIdx = 1
    /\ pc = "extract"
    /\ exit = "running"
    /\ chatgpt_prompts = NoText
    /\ lines = <<>>
    /\ tasks = <<>>
    /\ result = <<>>
    /\ semaphore = 0
    /\ waiters = <<>>
    /\ pieces = <<>>
    /\ dry_pieces = <<>>
    /\ markdown = NoText
    /\ dry_sample = "absent"
    /\ saved = {}
    /\ sent = {}
    /\ raised = {}
    /\ apiSpent = FALSE
    /\ dryFailure = "none"
    /\ saveFailed = FALSE
    /\ outOfOrder = FALSE
    /\ dry_log = "none"

\* `if m:` the pattern is found
ExtractMatch ==
    /\ pc = "extract"
    /\ MatchStarts(full_text) # {}
    /\ extra_system_prompt' = extract_system_prompt_and_body(full_text)[1]
    /\ chatgpt_prompts' = extract_system_prompt_and_body(full_text)[2]
    /\ pc' = "extracted"
    /\ UNCHANGED <<config, tree, env, more, fileIdx, exit, full_text, run, docs, disk, hist>>

\* no match: (None, text)
ExtractNoMatch ==
    /\ pc = "extract"
    /\ MatchStarts(full_text) = {}
    /\ extra_system_prompt' = extract_system_prompt_and_body(full_text)[1]
    /\ chatgpt_prompts' = extract_system_prompt_and_body(full_text)[2]
    /\ pc' = "extracted"
    /\ UNCHANGED <<config, tree, env, more, fileIdx, exit, full_text, run, docs, disk, hist>>

\* process_prompts_to_markdown is called with the body: its lines
ScheduleBody ==
    /\ pc = "extracted"
    /\ lines' = NonBlankLines(chatgpt_prompts)
    /\ pc' = "scheduled"
    /\ UNCHANGED <<config, tree, env, more, fileIdx, exit, chatgpt_prompts, full_text, extra_system_prompt,
                   tasks, result, semaphore, waiters, raised, outOfOrder, requests, docs, disk, hist>>

NextExtract == ExtractMatch \/ ExtractNoMatch \/ ScheduleBody

SpecExtract == InitExtract /\ [][NextExtract]_vars

(***************************************************************************)
(* main.py: the tree format.  A node of the loaded YAML is a record: kind  *)
(* is "map", "list", or the type of a scalar ("str", "int"); text is what  *)
(* str() makes of a scalar; items are the entries of a container in        *)
(* insertion order, each with its key (empty for the items of a list).     *)
(***************************************************************************)
LeafNodes ==
    { [kind |-> "str", text |-> "p", items |-> <<>>],
      [kind |-> "int", text |-> "7", items |-> <<>>] }

Keys == {"A", "B"}

\* the keys of a mapping, in insertion order: no key twice
KeySeqs(n) == {ks \in [1..n -> Keys] : \A i, j \in 1..n : ks[i] = ks[j] => i = j}

MapNode(ks, vals) ==
    [kind |-> "map", text |-> "",
     items |-> [i \in 1..Len(ks) |-> [key |-> ks[i], val |-> vals[i]]]]

ListNode(vals) ==
    [kind |-> "list", text |-> "",
     items |-> [i \in 1..Len(vals) |-> [key |-> "", val |-> vals[i]]]]

\* mappings and sequences of up to MaxChildren entries over the nodes S
Containers(S) ==
    UNION { {ListNode(vals) : vals \in [1..n -> S]}
            \cup {MapNode(ks, vals) : ks \in KeySeqs(n), vals \in [1..n -> S]}
          : n \in 0..MaxChildren }

RECURSIVE Trees(_)
\* the nodes of at most d levels of containers
Trees(d) == IF d = 0 THEN LeafNodes ELSE LeafNodes \cup Containers(Trees(d - 1))

\* the documents of depth d: a mapping of one title over a tree of d
\* levels, or of two titles over trees of d - 1 levels
Roots(d) ==
    {MapNode(<<"T">>, <<t>>) : t \in Trees(d)}
    \cup {MapNode(<<"T", "U">>, <<t, u>>) : t \in Trees(d - 1), u \in Trees(d - 1)}

InitTree ==
    /\ output_format \in {"pdf", "md"}
    /\ concurrency = 1
    /\ api_key \in {NoneVal, <<"key">>}
    /\ output_dir = FALSE
    /\ full_text = NoText
    /\ extra_system_prompt = NoneVal
    /\ requests = <<>>
    /\ sections = <<>>
    /\ missing = {}
    /\ data \in Roots(TreeDepth)
    /\ agenda = <<>>
    /\ section_md = <<>>
    /\ all_sections_md = <<>>
    /\ fileIdx = 1
    /\ pc = "tree_start"
    /\ exit = "running"
    /\ chatgpt_prompts = NoText
    /\ lines = <<>>
    /\ tasks = <<>>
    /\ result = <<>>
    /\ semaphore = 0
    /\ waiters = <<>>
    /\ pieces = <<>>
    /\ dry_pieces = <<>>
    /\ markdown = NoText
    /\ dry_sample = "absent"
    /\ saved = {}
    /\ sent = {}
    /\ raised = {}
    /\ apiSpent = FALSE
    /\ dryFailure = "none"
    /\ saveFailed = FALSE
    /\ outOfOrder = FALSE
    /\ dry_log = "none"

\* "#" * n
Hashes(n) == [i \in 1..n |-> "#"]

\* heading = "#" * (depth + 1) + f" {key}", appended with "\n"; hd is depth + 1
Heading(hd, key) == Hashes(hd) \o <<" ", key, "\n">>

\* section_md = f"# {title}\n\n"
TitleLine(title) == <<"#", " ", title, "\n", "\n">>

\* f"Prompt: {node}\n\n" + response.output_text.strip() + "\n\n---\n\n"
LeafText(node, reply) ==
    <<"Prompt: ", node.text, "\n", "\n">> \o Strip(reply) \o <<"\n\n---\n\n">>

\* node + "\n\n---\n\n", for a node that is a str
LeafFallback(node) == <<node.text, "\n\n---\n\n">>

\* The calls the loop over a container makes, in order: for the entries of
\* a mapping at depth d the heading is appended before the call, which is
\* made with depth d + 1; the items of a list are walked with depth d.
Calls(node, d) ==
    [i \in 1..Len(node.items) |->
        [key |-> node.items[i].key,
         node |-> node.items[i].val,
         depth |-> IF node.kind = "map" THEN d + 1 ELSE d]]

\* what the caller appends before the call c: the heading of a mapping key
\* (c.depth is the caller's depth + 1)
HeadingOf(c) == IF c.key = "" THEN <<>> ELSE <<Heading(c.depth, c.key)>>

\* the credential is missing: logged, sys.exit(1)
TreeStartNoKey ==
    /\ exit = "running" /\ pc = "tree_start"
    /\ CredentialMissing
    /\ exit' = "exit1"
    /\ UNCHANGED <<config, tree, env, more, fileIdx, pc, chatgpt_prompts, full_text, extra_system_prompt, run, docs, disk, hist>>

\* load_yaml_file fails: logged, sys.exit(1)
TreeLoadFails ==
    /\ exit = "running" /\ pc = "tree_start"
    /\ ~CredentialMissing
    /\ exit' = "exit1"
    /\ UNCHANGED <<config, tree, env, more, fileIdx, pc, chatgpt_prompts, full_text, extra_system_prompt, run, docs, disk, hist>>

\* the YAML file is loaded
TreeLoad ==
    /\ exit = "running" /\ pc = "tree_start"
    /\ ~CredentialMissing
    /\ pc' = "tree_css"
    /\ UNCHANGED <<config, tree, env, more, fileIdx, exit, chatgpt_prompts, full_text, extra_system_prompt, run, docs, disk, hist>>

\* the stylesheet cannot be read: nothing catches the exception
TreeCssMissing ==
    /\ exit = "running" /\ pc = "tree_css"
    /\ exit' = "exception"
    /\ UNCHANGED <<config, tree, env, more, fileIdx, pc, chatgpt_prompts, full_text, extra_system_prompt, run, docs, disk, hist>>

\* the stylesheet is read; the loop over the top-level entries begins
TreeCss ==
    /\ exit = "running" /\ pc = "tree_css"
    /\ pc' = "tree_loop"
    /\ UNCHANGED <<config, tree, env, more, fileIdx, exit, chatgpt_prompts, full_text, extra_system_prompt, run, docs, disk, hist>>

\* the loop takes the next top-level entry: the title line, then the walk
\* of its subtree with depth=1
TopLevelSection ==
    /\ exit = "running" /\ pc = "tree_loop"
    /\ fileIdx <= Len(data.items)
    /\ section_md' = <<TitleLine(data.items[fileIdx].key)>>
    /\ agenda' = <<[key |-> "", node |-> data.items[fileIdx].val, depth |-> 1]>>
    /\ pc' = "tree_walk"
    /\ UNCHANGED <<config, data, all_sections_md, env, more, fileIdx, exit, chatgpt_prompts, full_text, extra_system_prompt, run, docs, disk, hist>>

\* generate_markdown_from_node on a dict or a list: its loop makes the
\* calls for the entries, before the calls that were still to be made
WalkContainer ==
    /\ exit = "running" /\ pc = "tree_walk"
    /\ agenda # <<>>
    /\ Head(agenda).node.kind \in {"map", "list"}
    /\ section_md' = section_md \o HeadingOf(Head(agenda))
    /\ agenda' = Calls(Head(agenda).node, Head(agenda).depth) \o Tail(agenda)
    /\ UNCHANGED <<config, data, all_sections_md, env, more, ctl, run, docs, disk, hist>>

\* generate_markdown_from_node on a scalar: the request is answered
WalkLeaf ==
    /\ exit = "running" /\ pc = "tree_walk"
    /\ agenda # <<>>
    /\ Head(agenda).node.kind \notin {"map", "list"}
    /\ \E reply \in ApiReplies(<<Head(agenda).node.text>>) :
         section_md' = section_md \o HeadingOf(Head(agenda))
                          \o <<LeafText(Head(agenda).node, reply)>>
    /\ agenda' = Tail(agenda)
    /\ apiSpent' = TRUE
    /\ UNCHANGED <<config, data, all_sections_md, env, more, ctl, run, docs, disk, sent, dryFailure, saveFailed>>

\* the request for a str fails: the except branch appends the node itself
WalkLeafFails ==
    /\ exit = "running" /\ pc = "tree_walk"
    /\ agenda # <<>>
    /\ Head(agenda).node.kind = "str"
    /\ section_md' = section_md \o HeadingOf(Head(agenda))
                         \o <<LeafFallback(Head(agenda).node)>>
    /\ agenda' = Tail(agenda)
    /\ apiSpent' = TRUE
    /\ UNCHANGED <<config, data, all_sections_md, env, more, ctl, run, docs, disk, sent, dryFailure, saveFailed>>

\* the request for a scalar that is no str fails: in the except branch
\* node + "\n\n---\n\n" raises TypeError, which nothing catches
WalkLeafTypeError ==
    /\ exit = "running" /\ pc = "tree_walk"
    /\ agenda # <<>>
    /\ Head(agenda).node.kind \notin {"map", "list", "str"}
    /\ section_md' = section_md \o HeadingOf(Head(agenda))
    /\ exit' = "exception"
    /\ apiSpent' = TRUE
    /\ UNCHANGED <<config, data, agenda, all_sections_md, env, more, fileIdx, pc, chatgpt_prompts, full_text, extra_system_prompt, run, docs, disk, sent, dryFailure, saveFailed>>

\* the walk of the subtree has returned: all_sections_md.append(section_md)
SectionDone ==
    /\ exit = "running" /\ pc = "tree_walk"
    /\ agenda = <<>>
    /\ all_sections_md' = Append(all_sections_md, section_md)
    /\ section_md' = <<>>
    /\ fileIdx' = fileIdx + 1
    /\ pc' = "tree_loop"
    /\ UNCHANGED <<config, data, agenda, env, more, exit, chatgpt_prompts, full_text, extra_system_prompt, run, docs, disk, hist>>

\* what is written: one Markdown text for md, one Section per top-level
\* entry for pdf
TreeDocument ==
    IF output_format = "md" THEN <<all_sections_md>> ELSE all_sections_md

\* the document is written; main returns
TreeSaveOk ==
    /\ exit = "running" /\ pc = "tree_loop"
    /\ fileIdx > Len(data.items)
    /\ sections' = TreeDocument
    /\ saved' = {1}
    /\ exit' = "ok"
    /\ UNCHANGED <<config, tree, env, missing, fileIdx, pc, chatgpt_prompts, full_text, extra_system_prompt, run, docs, dry_sample, dry_log, hist>>

\* writing fails: logged, sys.exit(1)
TreeSaveFails ==
    /\ exit = "running" /\ pc = "tree_loop"
    /\ fileIdx > Len(data.items)
    /\ sections' = TreeDocument
    /\ saveFailed' = TRUE
    /\ exit' = "exit1"
    /\ UNCHANGED <<config, tree, env, missing, fileIdx, pc, chatgpt_prompts, full_text, extra_system_prompt, run, docs, disk, sent, apiSpent, dryFailure>>

NextTree ==
    \/ TreeStartNoKey
    \/ TreeLoadFails
    \/ TreeLoad
    \/ TreeCssMissing
    \/ TreeCss
    \/ TopLevelSection
    \/ WalkContainer
    \/ WalkLeaf
    \/ WalkLeafFails
    \/ WalkLeafTypeError
    \/ SectionDone
    \/ TreeSaveOk
    \/ TreeSaveFails

SpecTree == InitTree /\ [][NextTree]_vars

(***************************************************************************)
(* Properties.                                                             *)
(***************************************************************************)
InFlight == {i \in DOMAIN tasks : tasks[i] = "inflight"}
Waiting == {i \in DOMAIN tasks : tasks[i] = "waiting"}
IsHeaderLine(i) == StartsWithHash(LStrip(lines[i]))
Leaves == {i \in DOMAIN lines : ~IsHeaderLine(i)}
DryPcs == {"dry_gather", "dry_write", "dry_unlink"}
RealPcs == {"real_gather", "save"}

\* every block process_prompts_to_markdown can produce for an input line in a real run
BlocksOf(line) ==
    LET s == LStrip(line) IN
    IF StartsWithHash(s) THEN {s}
    ELSE {generate_markdown_from_prompt(s, r) : r \in ApiReplies(s) \cup {Raises}}

\* C1: when the real run has returned, the document has one block per
\* non-blank input line and block i is a result of line i (the header text,
\* or a generation result for that line's prompt), whatever the order in
\* which the generation calls returned.
C1_OrderPreserved ==
    pc = "save" =>
        /\ Len(pieces) = Len(lines)
        /\ \A i \in 1..Len(lines) : pieces[i] \in BlocksOf(lines[i])

\* two different prompts, the calls returned out of submission order
C1_Witness ==
    /\ pc = "save" /\ outOfOrder
    /\ \E i, j \in Leaves : i < j /\ LStrip(lines[i]) # LStrip(lines[j])

\* C2: the number of generation calls started and not yet returned never
\* exceeds the concurrency limit, and a task waits for a permit only while
\* all permits are taken or one has just been released for it.
C2_ConcurrencyBound ==
    /\ Cardinality(InFlight) <= concurrency
    /\ Waiting # {} => (Cardinality(InFlight) = concurrency \/ semaphore > 0)

\* all permits in use and a further leaf task queued
C2_Witness ==
    /\ pc = "real_gather"
    /\ Cardinality(InFlight) = concurrency
    /\ Waiting # {}

C4_HeaderPassthrough ==
    \A i \in 1..Len(lines) :
        lines[i][1] = "#" =>
            /\ lines[i] \notin sent
            /\ pc \in {"dry_write", "save"} =>
                 (Len(pieces) = Len(lines) /\ pieces[i] = lines[i])

\* a header with trailing whitespace next to a prompt that has been sent
C4_Witness ==
    /\ pc = "save"
    /\ sent # {}
    /\ \E i \in 1..Len(lines) : lines[i][1] = "#" /\ lines[i][Len(lines[i])] = " "

\* the dry-run phase of the current file is under way
DryPhaseActive == exit = "running" /\ pc \in DryPcs

\* C5 as stated: no generation call during the dry-run phase, and once the
\* phase has ended, by success or by failure, the sample is not on disk.
C5_Original ==
    /\ pc \in DryPcs => (sent = {} /\ InFlight = {})
    /\ ~DryPhaseActive => dry_sample = "absent"

\* C5, amended: no generation call during the dry-run phase; once the phase
\* has ended the sample is not on disk, unless the phase ended by a failure
\* of writing or of deleting the sample, which leaves the file behind.
C5_DryRunNoOp ==
    /\ pc \in DryPcs => (sent = {} /\ InFlight = {})
    /\ ~DryPhaseActive => (dry_sample = "absent" <=> dryFailure \in {"none", "open"})

\* the dry run of a file with a prompt has ended and its sample is deleted
C5_Witness ==
    /\ pc = "real_gather"
    /\ Leaves # {}
    /\ dry_log = "deleted" /\ dry_sample = "absent"
    /\ sent = {}

\* C6: when writing the dry-run sample fails the controller stops there:
\* the process ends with the exception, in the validation step, with no
\* generation call issued for the file and none in flight.
C6_DryFailureFatal ==
    dryFailure # "none" =>
        /\ exit = "exception"
        /\ pc \in {"dry_write", "dry_unlink"}
        /\ sent = {} /\ InFlight = {}
        /\ fileIdx \notin saved

\* the sample of the first file, which has a prompt, could not be written
C6_Witness ==
    /\ dryFailure = "write"
    /\ fileIdx = 1
    /\ Leaves # {}

\* the Save step has failed: the serializer raised, or the selector is unknown
SaveStepFailed == saveFailed \/ (pc = "save" /\ exit = "exit1")

\* C7 as stated: the dry run serializes into the configured format, so a
\* failure of the Save step shows in the dry run, before any generation
\* call: the Save step never fails once a generation call has been issued.
C7_DryRunValidatesSave ==
    SaveStepFailed => ~apiSpent

\* the step from one controller position to the next, in the order
\* DryRun, Validate (write, delete), RealRun, Save
PhaseSteps ==
    { <<"start", "read">>, <<"read", "dry_gather">>, <<"dry_gather", "dry_write">>,
      <<"dry_write", "dry_unlink">>, <<"dry_unlink", "real_gather">>,
      <<"real_gather", "save">>, <<"save", "serialize">> }

C8_Step ==
    /\ (fileIdx' = fileIdx /\ pc' # pc) => <<pc, pc'>> \in PhaseSteps
    /\ fileIdx' # fileIdx => (fileIdx' = fileIdx + 1 /\ pc \in {"read", "serialize"} /\ pc' = "read")
    /\ sent' # sent /\ sent' # {} =>
         /\ pc = "real_gather" /\ pc' = "real_gather"
         /\ dry_log = "deleted" /\ dry_sample = "absent"

\* C8: for each file the controller moves through DryRun, Validate, RealRun
\* and Save in this order, one step at a time and never backwards, and a
\* generation call starts only in RealRun, after the dry run has returned
\* and its sample has been written and deleted.
C8_PhasesSequential == [][C8_Step]_vars

\* a file has gone through all the phases, with a generation call
C8_Witness ==
    /\ pc = "save"
    /\ dry_log = "deleted"
    /\ sent # {}

\* C9 as stated: with an unsupported output_format no generation call is
\* ever issued.
C9_UnknownFormatBeforeSpend ==
    output_format \notin SupportedFormats => ~apiSpent

\* C10 as stated: once serializing a final document has failed the process
\* is in a fatal state.
C10_SaveFailureFatal ==
    saveFailed => exit \in {"exit1", "exception"}

\* C11: when the API credential is absent from the environment (unset or
\* empty), main never gets past its start: the process has not returned
\* normally, it has issued no generation call, started no task of a dry
\* run, made no directory and written no file; and once it has stopped its
\* exit status is not zero.
C11_MissingCredentialFatal ==
    api_key \in {NoneVal, <<>>} =>
        /\ pc = "start"
        /\ exit \in {"running", "exit1", "exception"}
        /\ ~apiSpent /\ sent = {} /\ requests = <<>>
        /\ tasks = <<>> /\ lines = <<>>
        /\ dry_log = "none" /\ dry_sample = "absent"
        /\ saved = {} /\ ~output_dir

\* the process has exited with status 1 on an empty credential
C11_Witness ==
    /\ api_key = <<>>
    /\ exit = "exit1"

\* permits held by the tasks of the current run
PermitsHeld == Cardinality({i \in DOMAIN tasks : tasks[i] = "inflight"})

\* a semaphore exists from the call of process_prompts_to_markdown on
SemaphoreExists == pc \notin {"start", "read"}

\* C16: while the semaphore of a run exists, permits held by tasks plus
\* free permits equal the concurrency limit, and once
\* process_prompts_to_markdown has returned (dry run or real run, calls
\* failed or not) every permit is free.
C16_PermitAccounting ==
    SemaphoreExists =>
        /\ semaphore + PermitsHeld = concurrency
        /\ (~InGather \/ AllDone) => semaphore = concurrency

\* a real run has returned after a call failed while another task waited
\* for a permit or held one
C16_Witness ==
    /\ pc = "save"
    /\ raised # {}
    /\ Cardinality(Leaves) > concurrency
    /\ semaphore = concurrency

\* the non-blank lines of the body, read off the file text
BodyLines == SelectSeq(SplitLines(chatgpt_prompts), LAMBDA ln : Strip(ln) # <<>>)

\* position of the first header among the lines ls, Len(ls) + 1 if none
FirstHeader(ls) ==
    Min({i \in 1..Len(ls) : StartsWithHash(LStrip(ls[i]))} \cup {Len(ls) + 1})

\* C20: when the real run has returned, every prompt line that stands
\* before the first header has been dispatched and its generated block
\* stands in the output at the position of its line, ahead of the block of
\* the first header.
C20_LeadingPromptsKept ==
    pc = "save" =>
        LET body == BodyLines
            first == FirstHeader(body)
        IN
        /\ Len(pieces) = Len(body)
        /\ markdown = Join(pieces)
        /\ \A i \in 1..(first - 1) :
              /\ LStrip(body[i]) \in sent
              /\ pieces[i] \in BlocksOf(body[i])
        /\ first <= Len(body) => pieces[first] = LStrip(body[first])

\* a file whose first line is a prompt and whose second line is a header
C20_Witness ==
    /\ pc = "save"
    /\ Len(lines) >= 2
    /\ FirstHeader(BodyLines) = 2
    /\ markdown # NoText

\* the lines of the current file that are headers, read off the text
HeaderPositions == {i \in DOMAIN lines : LStrip(lines[i]) # <<>> /\ Head(LStrip(lines[i])) = "#"}

ExtraMessages(req) == SubSeq(req, 2, Len(req) - 1)

\* every request sent for the current file
RequestsSent == UNION {{requests[i][k] : k \in 1..Len(requests[i])} : i \in DOMAIN requests}

\* C14 as stated: every request of a file from which an override was
\* extracted carries the override as an extra system message, and no
\* request of a file without an override carries one.
C14_Original ==
    \A req \in RequestsSent :
        IF extra_system_prompt # NoneVal
        THEN ExtraMessages(req) = <<[role |-> "system", content |-> extra_system_prompt]>>
        ELSE ExtraMessages(req) = <<>>

\* the override in force is what the file text gives
OverrideParsed ==
    pc \notin {"start", "read"} =>
        /\ extra_system_prompt = extract_system_prompt_and_body(full_text)[1]
        /\ chatgpt_prompts = extract_system_prompt_and_body(full_text)[2]

\* requests carry the override when it is not empty
OverrideAttached ==
    \A req \in RequestsSent :
        IF extra_system_prompt \notin {NoneVal, <<>>}
        THEN ExtraMessages(req) = <<[role |-> "system", content |-> extra_system_prompt]>>
        ELSE ExtraMessages(req) = <<>>

\* the override is set when the file is read and cleared with the iteration
OverrideStep ==
    extra_system_prompt' # extra_system_prompt =>
        \/ pc = "read" /\ pc' = "dry_gather"
        \/ fileIdx' = fileIdx + 1 /\ extra_system_prompt' = NoneVal

\* C14: the override of a prompt file is extracted once, when the file is
\* read, and stays as extracted through the dry run and the real run; when
\* it is not empty it is attached as an extra system message to every
\* generation call of the file, and when the file has no override block or
\* an empty one no call carries an extra system message.
C14_OverrideScope == [](OverrideParsed /\ OverrideAttached) /\ [][OverrideStep]_vars

\* a call has gone out with the override of its file
C14_Witness ==
    /\ pc = "real_gather"
    /\ extra_system_prompt = <<"a">>
    /\ \E req \in RequestsSent : Len(req) = 3

\* C18: no task ever sends more than one request; when the real run has
\* returned every prompt line has caused exactly one request, which carries
\* that prompt, and no header line has caused any, whether calls failed or
\* not; the dry run sends none.
C18_NoRetry ==
    /\ \A i \in DOMAIN requests : Len(requests[i]) <= 1
    /\ pc \in DryPcs => RequestsSent = {}
    /\ pc \in {"save", "serialize"} =>
          \A i \in DOMAIN lines :
              IF IsHeaderLine(i) THEN requests[i] = <<>>
              ELSE /\ Len(requests[i]) = 1
                   /\ requests[i][1][Len(requests[i][1])].content =
                          LStrip(lines[i]) \o <<"\n", "\n">>

\* a real run has returned in which one call failed and another succeeded
C18_Witness ==
    /\ pc = "save"
    /\ raised # {}
    /\ Leaves \ raised # {}

\* a step in which a file is found missing
C19_Step ==
    missing' # missing =>
        /\ pc = "read" /\ missing' = missing \cup {fileIdx}
        /\ tasks = <<>> /\ tasks' = <<>>
        /\ sent = {} /\ sent' = {} /\ requests' = <<>>
        /\ apiSpent' = apiSpent
        /\ saved' = saved /\ dry_sample' = dry_sample /\ dry_log' = "none"
        /\ exit' = "running"
        /\ fileIdx' = fileIdx + 1 /\ pc' = "read"

\* C19: the step that finds a prompt file missing creates no task, issues
\* no generation call and writes nothing, and leaves the controller running
\* at the read of the next file of the list; no document is ever saved for
\* a file that was missing.
C19_MissingFileSkipped == [](missing \cap saved = {}) /\ [][C19_Step]_vars

\* the first file was missing and the second went through all its phases
\* with generation calls
C19_Witness ==
    /\ 1 \in missing
    /\ 2 \in saved
    /\ apiSpent

\* process_prompts_to_markdown has returned its document to main
RunReturned == pc \in {"dry_write", "dry_unlink", "save", "serialize"}

\* the document exists only when every task of the run is done
DocumentAfterTasks ==
    RunReturned => /\ AllDone
                   /\ Len(pieces) = Len(tasks)
                   /\ markdown = Join(pieces)

\* task i of a run, once scheduled, completes
TaskCompletes(i) ==
    (i \in DOMAIN tasks /\ tasks[i] # "done") ~> (i \in DOMAIN tasks /\ tasks[i] = "done")

\* C17: when every task that is ready is run and every dispatched call
\* returns or fails, each scheduled task completes (a task that waits for
\* a permit gets one), each call of process_prompts_to_markdown returns,
\* and its document exists only once all its tasks are done.
C17_RunTerminates ==
    /\ []DocumentAfterTasks
    /\ \A i \in 1..MaxTasks : TaskCompletes(i)
    /\ (pc = "dry_gather") ~> (pc = "dry_write")
    /\ (pc = "real_gather") ~> (pc = "save")

\* a real run has returned in which more prompts than permits were
\* scheduled, so that a task had to wait
C17_Witness ==
    /\ pc = "save"
    /\ Cardinality(Leaves) > concurrency
    /\ AllDone
    /\ markdown # NoText

\* positions of text t at which a fence is followed by the word system
OpeningPairs(t) == {k \in 1..(Len(t) - 1) : t[k] = Fence /\ t[k + 1] \in {"system", "SYSTEM"}}

\* t[i..j] is a fenced override block: opening fence and word at i, closing
\* fence at j, no fence between
IsBlock(t, i, j) ==
    /\ i \in OpeningPairs(t)
    /\ j \in (i + 2)..Len(t)
    /\ t[j] = Fence
    /\ \A k \in (i + 2)..(j - 1) : t[k] # Fence

\* C13: for a text with exactly one fenced override block the override
\* returned is the stripped content of the block and holds no fence, and
\* the body returned is the text without the block, fences included; for a
\* text without such a block the override is None and the body is the text.
C13_Extraction ==
    pc = "extracted" =>
        /\ \A i \in OpeningPairs(full_text) : \A j \in (i + 2)..Len(full_text) :
              (IsBlock(full_text, i, j) /\ OpeningPairs(full_text) = {i}) =>
                  /\ extra_system_prompt = Strip(SubSeq(full_text, i + 2, j - 1))
                  /\ \A k \in DOMAIN extra_system_prompt : extra_system_prompt[k] # Fence
                  /\ chatgpt_prompts =
                        SubSeq(full_text, 1, i - 1) \o SubSeq(full_text, j + 1, Len(full_text))
        /\ (~ \E i \in OpeningPairs(full_text) : \E j \in (i + 2)..Len(full_text) :
                   IsBlock(full_text, i, j)) =>
              /\ extra_system_prompt = NoneVal
              /\ chatgpt_prompts = full_text

\* a block with text around it and a stray fence after it was extracted
C13_Witness ==
    /\ pc = "extracted"
    /\ \E i, j \in 1..Len(full_text) :
          /\ IsBlock(full_text, i, j) /\ OpeningPairs(full_text) = {i}
          /\ \E k \in (j + 1)..Len(full_text) : full_text[k] = Fence
    /\ extra_system_prompt = <<"a">>
    /\ chatgpt_prompts # <<>>

\* the pieces of the document of the tree format, in order
RECURSIVE Flatten(_)
Flatten(secs) == IF secs = <<>> THEN <<>> ELSE Head(secs) \o Flatten(Tail(secs))

\* number of "#" a piece opens with
LeadingHashes(piece) ==
    Min({k \in 1..Len(piece) : piece[k] # "#"} \cup {Len(piece) + 1}) - 1

\* what a piece of the output is: a heading of some level with its text, or
\* the result of a leaf with its prompt
ShapeOf(piece) ==
    IF piece[1] = "#"
    THEN [kind |-> "heading", level |-> LeadingHashes(piece),
          text |-> piece[LeadingHashes(piece) + 2]]
    ELSE [kind |-> "leaf", level |-> 0,
          text |-> IF piece[1] = "Prompt: " THEN piece[2] ELSE piece[1]]

RECURSIVE ExpectedShapes(_, _)
RECURSIVE ExpectedEntries(_, _, _)
\* The output the tree format is to give for a node whose mapping keys
\* stand at nesting level `level`, depth first in insertion order: a
\* heading of level + 1 for each key of a mapping, then its subtree one
\* level deeper; the items of a sequence at the level of the sequence; one
\* leaf result for a scalar.
ExpectedShapes(node, level) ==
    IF node.kind \in {"map", "list"}
    THEN ExpectedEntries(node.items, node.kind, level)
    ELSE <<[kind |-> "leaf", level |-> 0, text |-> node.text]>>

ExpectedEntries(items, kind, level) ==
    IF items = <<>> THEN <<>>
    ELSE (IF kind = "map"
          THEN <<[kind |-> "heading", level |-> level + 1, text |-> Head(items).key]>>
               \o ExpectedShapes(Head(items).val, level + 1)
          ELSE ExpectedShapes(Head(items).val, level))
         \o ExpectedEntries(Tail(items), kind, level)

\* the walk of every top-level entry has returned
WalkOver == pc = "tree_loop" /\ fileIdx > Len(data.items)

\* the finished document has the headings and leaf results of the tree
TreeOrder ==
    WalkOver =>
        /\ Len(all_sections_md) = Len(data.items)
        /\ [i \in 1..Len(Flatten(all_sections_md)) |-> ShapeOf(Flatten(all_sections_md)[i])]
              = ExpectedShapes(data, 0)

\* C15 as stated: the walk of a tree of mappings, sequences and scalars is
\* never broken off, and when it is over the output holds a heading of
\* depth (nesting level + 1) for each mapping key and one leaf result for
\* each scalar, in depth-first insertion order, the elements of a sequence
\* at the depth of the sequence.
C15_TreeWalk ==
    /\ pc = "tree_walk" => exit = "running"
    /\ TreeOrder

\* a block that is a header line: its text opens with "#"
IsHeaderBlock(b) == b # <<>> /\ Head(b) = "#"

\* C22: when the real run of a file has returned, the blocks of its dry
\* run and the blocks of its real run are as many as the non-blank lines
\* of the body; at the position of each header line both hold that line,
\* and at the position of each prompt line neither holds a header: the dry
\* run holds the placeholder and the real run the generated or the
\* fallback text, whichever calls failed.
C22_DryRealAgree ==
    pc \in {"save", "serialize"} =>
        LET body == BodyLines IN
        /\ Len(dry_pieces) = Len(body)
        /\ Len(pieces) = Len(body)
        /\ \A i \in 1..Len(body) :
              IF body[i] # <<>> /\ Head(LStrip(body[i])) = "#"
              THEN /\ dry_pieces[i] = LStrip(body[i])
                   /\ pieces[i] = dry_pieces[i]
              ELSE /\ dry_pieces[i] = PlaceholderText(LStrip(body[i]))
                   /\ pieces[i] \in BlocksOf(body[i])
                   /\ ~IsHeaderBlock(dry_pieces[i])
                   /\ ~IsHeaderBlock(pieces[i])
                   /\ pieces[i] # dry_pieces[i]

\* both runs of a file with a header and a prompt have returned, the call
\* of the real run having failed
C22_Witness ==
    /\ pc = "save"
    /\ HeaderPositions # {}
    /\ raised # {}
    /\ dry_pieces # <<>>
    /\ pieces # dry_pieces

\* a step of the controller and what it needs of the tasks
C23_Step ==
    /\ fileIdx' # fileIdx =>
          /\ fileIdx' = fileIdx + 1
          /\ pc \in {"read", "serialize"}
          /\ \A i \in DOMAIN tasks : tasks[i] = "done"
          /\ tasks' = <<>>
    /\ (tasks' # tasks /\ tasks' # <<>>) => (fileIdx' = fileIdx /\ pc' \in {"dry_gather", "real_gather"})

\* C23: the loop moves to the next file only from the read of a file that
\* is skipped or from the end of the Save step, when every task of the
\* file is done; tasks are created and run only inside the two runs of the
\* current file; so the calls in flight in the whole process are those of
\* one run and never more than the concurrency limit.
C23_OneFileAtATime ==
    [](Cardinality({i \in DOMAIN tasks : tasks[i] = "inflight"}) <= concurrency
       /\ (pc \in {"read", "start"} => tasks = <<>>))
    /\ [][C23_Step]_vars

\* calls of the second file are in flight, as many as the limit allows,
\* after the first file was saved with calls of its own
C23_Witness ==
    /\ fileIdx = 2
    /\ 1 \in saved
    /\ apiSpent
    /\ PermitsHeld = concurrency
    /\ Waiting # {}

\* t[i..j] is the first fenced override block of t and t[i2..j2] a later one
TwoBlocks(t, i, j, i2, j2) ==
    /\ IsBlock(t, i, j)
    /\ \A k \in OpeningPairs(t) : k >= i
    /\ i2 > j
    /\ IsBlock(t, i2, j2)

\* C21: for a text with two or more fenced override blocks the override
\* returned is the stripped content of the first block and the body is the
\* text without that first block; every later block stands in the body as
\* it stood in the text, and the lines the orchestrator takes from the body
\* are the non-blank lines of the text without the first block.
C21_FirstBlockOnly ==
    pc \in {"extracted", "scheduled"} =>
        \A i \in OpeningPairs(full_text) : \A j \in (i + 2)..Len(full_text) :
        \A i2 \in OpeningPairs(full_text) : \A j2 \in (i2 + 2)..Len(full_text) :
            TwoBlocks(full_text, i, j, i2, j2) =>
                /\ extra_system_prompt = Strip(SubSeq(full_text, i + 2, j - 1))
                /\ chatgpt_prompts =
                      SubSeq(full_text, 1, i - 1) \o SubSeq(full_text, j + 1, Len(full_text))
                /\ SubSeq(chatgpt_prompts, i2 - (j - i + 1), j2 - (j - i + 1))
                      = SubSeq(full_text, i2, j2)
                /\ pc = "scheduled" =>
                      lines = SelectSeq(
                          SplitLines(SubSeq(full_text, 1, i - 1)
                                     \o SubSeq(full_text, j + 1, Len(full_text))),
                          LAMBDA ln : Strip(ln) # <<>>)

\* a text of two blocks, the first with an instruction, has been
\* extracted and the later block is among the lines of the orchestrator
C21_Witness ==
    /\ pc = "scheduled"
    /\ \E i \in OpeningPairs(full_text) : \E j \in (i + 2)..Len(full_text) :
       \E i2 \in OpeningPairs(full_text) : \E j2 \in (i2 + 2)..Len(full_text) :
          TwoBlocks(full_text, i, j, i2, j2)
    /\ extra_system_prompt = <<"a">>
    /\ \E n \in DOMAIN lines : Head(lines[n]) = Fence

=============================================================================
